---- MODULE Spec2Model ----
(***************************************************************************)
(* Model of the 3DM geometry pipeline of the dashboard:                    *)
(*   RhinoComputeService (src/src/pages/Settings.tsx, the variant with the *)
(*   Rhino Compute remote attempt; src/src/services/rhinoCompute.ts is the *)
(*   same service without the remote attempt).                             *)
(* A File is described by what the engine makes of its bytes: a document   *)
(* (sequence of objects) or a decode exception.  The engine (rhino3dm),    *)
(* the FileReader and the Rhino Compute endpoint are the environment.      *)
(***************************************************************************)
EXTENDS Integers, Sequences, FiniteSets, TLC

\* ------------------------------------------------------------------------
\* Bounds
\* ------------------------------------------------------------------------
MaxCalls == 2
MaxObjects == 2
MaxFaces == 2
MaxIndex == 1
MaxVerts == 2
MaxColors == 1
MaxDropped == 2
MaxDrops == 2
MaxReaders == 2

\* color.r / 255
ColorScale == 255

Calls == 1..MaxCalls

\* ------------------------------------------------------------------------
\* Engine-side data (what rhino3dm exposes to the code)
\* ------------------------------------------------------------------------

\* rhinoModule.ObjectType discriminants the code tests, plus one it does not
ObjectTypes == {"Mesh", "Brep", "Surface", "Curve"}

\* where, inside extractMeshGeometry, the engine raises an exception
ExtractFaults == {"none", "convert", "vertices", "faces", "normals", "colors"}

TriFace(a, b, c) == [isTriangle |-> TRUE, a |-> a, b |-> b, c |-> c, d |-> c]
QuadFace(a, b, c, d) == [isTriangle |-> FALSE, a |-> a, b |-> b, c |-> c, d |-> d]
Color(r, g, b, a) == [r |-> r, g |-> g, b |-> b, a |-> a]

\* an engine mesh: vertices/normals are sequences of <<x,y,z>>, faces of
\* face records, vertexColors of colour records
EngineMesh(vs, fs, ns, cs) ==
    [vertices |-> vs, faces |-> fs, normals |-> ns, vertexColors |-> cs]

\* a quotient n/d kept exact
Rat(n, d) == [num |-> n, den |-> d]

\* `undefined` for optional normals / colors
Absent == [present |-> FALSE, items |-> <<>>]
Present(s) == [present |-> TRUE, items |-> s]

\* ------------------------------------------------------------------------
\* extractMeshGeometry and its loops
\* ------------------------------------------------------------------------

\* the result of extractMeshGeometry: null, or {vertices, faces, normals, colors}
NullGeometry ==
    [isNull |-> TRUE, vertices |-> <<>>, faces |-> <<>>,
     normals |-> Absent, colors |-> Absent]

\* vertices.push([vertex[0], vertex[1], vertex[2]])
ExtractVertices(vs) == [i \in 1..Len(vs) |-> <<vs[i][1], vs[i][2], vs[i][3]>>]

\* SplitFace with the quad cut along the other diagonal's vertices
SplitFace_WrongDiagonal(face) ==
    IF face.isTriangle
    THEN << <<face.a, face.b, face.c>> >>
    ELSE << <<face.a, face.b, face.c>>, <<face.b, face.c, face.d>> >>

\* one source face: a triangle gives one triple, a quad two
SplitFace(face) ==
    IF face.isTriangle
    THEN << <<face.a, face.b, face.c>> >>
    ELSE << <<face.a, face.b, face.c>>, <<face.a, face.c, face.d>> >>

\* for (let i = 0; i < faceCount; i++) { ... faces.push(...) }
RECURSIVE ExtractFacesFrom(_, _, _)
ExtractFacesFrom(fs, i, acc) ==
    IF i > Len(fs) THEN acc
    ELSE ExtractFacesFrom(fs, i + 1, acc \o SplitFace(fs[i]))

ExtractFaces(fs) == ExtractFacesFrom(fs, 1, <<>>)

\* ExtractNormals creating the list whether or not the engine has normals
ExtractNormals_Always(ns) ==
    Present([i \in 1..Len(ns) |-> <<ns[i][1], ns[i][2], ns[i][3]>>])

\* if (mesh.normals().count > 0) { normals = []; ... }
ExtractNormals(ns) ==
    IF Len(ns) > 0
    THEN Present([i \in 1..Len(ns) |-> <<ns[i][1], ns[i][2], ns[i][3]>>])
    ELSE Absent

\* NormalizeColor dividing by 256
NormalizeColor_By256(color) ==
    << Rat(color.r, ColorScale + 1), Rat(color.g, ColorScale + 1),
       Rat(color.b, ColorScale + 1), Rat(color.a, ColorScale + 1) >>

\* [color.r / 255, color.g / 255, color.b / 255, color.a / 255]
NormalizeColor(color) ==
    << Rat(color.r, ColorScale), Rat(color.g, ColorScale),
       Rat(color.b, ColorScale), Rat(color.a, ColorScale) >>

\* if (mesh.vertexColors().count > 0) { colors = []; ... }
ExtractColors(cs) ==
    IF Len(cs) > 0
    THEN Present([i \in 1..Len(cs) |-> NormalizeColor(cs[i])])
    ELSE Absent

\* A geometry handle as the engine returns it from rhinoObject.geometry():
\*   objectType  the engine's discriminant
\*   tessNull    Mesh.createFromBrep/createFromSurface returns null
\*   fault       where the engine throws inside extractMeshGeometry
\*   mesh        the mesh itself (Mesh) or the tessellation result (Brep, Surface)
Geometry(t, tessNull, fault, mesh) ==
    [isNull |-> FALSE, objectType |-> t, tessNull |-> tessNull,
     fault |-> fault, mesh |-> mesh]

EmptyMesh == EngineMesh(<<>>, <<>>, <<>>, <<>>)

\* rhinoObject.geometry() returned null
NoGeometry ==
    [isNull |-> TRUE, objectType |-> "Curve", tessNull |-> FALSE,
     fault |-> "none", mesh |-> EmptyMesh]

\* extractMeshGeometry without the Surface branch
extractMeshGeometry_NoSurface(g) ==
    IF g.objectType \notin {"Mesh", "Brep"} THEN NullGeometry
    ELSE IF g.objectType # "Mesh" /\ g.fault = "convert" THEN NullGeometry
    ELSE IF g.objectType # "Mesh" /\ g.tessNull THEN NullGeometry
    ELSE IF g.fault \in {"vertices", "faces", "normals", "colors"} THEN NullGeometry
    ELSE [isNull |-> FALSE,
          vertices |-> ExtractVertices(g.mesh.vertices),
          faces |-> ExtractFaces(g.mesh.faces),
          normals |-> ExtractNormals(g.mesh.normals),
          colors |-> ExtractColors(g.mesh.vertexColors)]

\* try { ... } catch { return null }
extractMeshGeometry(g) ==
    IF g.objectType \notin {"Mesh", "Brep", "Surface"} THEN NullGeometry
    ELSE IF g.objectType # "Mesh" /\ g.fault = "convert" THEN NullGeometry
    ELSE IF g.objectType # "Mesh" /\ g.tessNull THEN NullGeometry
    ELSE IF g.fault \in {"vertices", "faces", "normals", "colors"} THEN NullGeometry
    ELSE [isNull |-> FALSE,
          vertices |-> ExtractVertices(g.mesh.vertices),
          faces |-> ExtractFaces(g.mesh.faces),
          normals |-> ExtractNormals(g.mesh.normals),
          colors |-> ExtractColors(g.mesh.vertexColors)]

\* ------------------------------------------------------------------------
\* extractAttributes
\* ------------------------------------------------------------------------
EmptyAttributes ==
    [isEmpty |-> TRUE, layer |-> 0, material |-> 0, color |-> 0,
     visible |-> FALSE, name |-> ""]

\* try { attributes = rhinoObject.attributes(); return {...} } catch { return {} }
extractAttributes(o) ==
    IF o.fault = "attributes" THEN EmptyAttributes
    ELSE [isEmpty |-> FALSE, layer |-> o.attributes.layerIndex,
          material |-> o.attributes.materialIndex,
          color |-> o.attributes.drawColor,
          visible |-> o.attributes.visible,
          name |-> o.attributes.name]

\* ------------------------------------------------------------------------
\* Documents and files
\* ------------------------------------------------------------------------

\* where the engine throws while the loop of parseLocally handles an object
ObjectFaults == {"none", "geometry", "id", "attributes"}

Attributes(layer, name) ==
    [layerIndex |-> layer, materialIndex |-> 0, drawColor |-> 0,
     visible |-> TRUE, name |-> name]

\* an object of the document's object table
Object(id, g, fault) ==
    [id |-> id, geometry |-> g, fault |-> fault, attributes |-> Attributes(id, "part")]

\* a File, by what the engine makes of its bytes:
\*   corrupt     File3dm.fromByteArray throws
\*   tableFault  doc.objects() / objectTable.count throws
\*   objects     the object table
File(name, corrupt, tableFault, objs) ==
    [name |-> name, corrupt |-> corrupt, tableFault |-> tableFault, objects |-> objs]

NoFile == File("", FALSE, FALSE, <<>>)

\* fixture meshes
TriMesh ==
    EngineMesh(<< <<0, 0, 0>>, <<1, 0, 0>>, <<0, 1, 0>> >>,
               << TriFace(0, 1, 2) >>, <<>>, <<>>)
QuadMesh ==
    EngineMesh(<< <<0, 0, 0>>, <<1, 0, 0>>, <<1, 1, 0>>, <<0, 1, 0>> >>,
               << QuadFace(0, 1, 2, 3) >>,
               << <<0, 0, 1>>, <<0, 0, 1>>, <<0, 0, 1>>, <<0, 0, 1>> >>,
               << Color(255, 0, 128, 255), Color(0, 0, 0, 255),
                  Color(128, 128, 128, 0), Color(255, 255, 255, 255) >>)

\* the kinds of object a document is made of (id filled in by position)
ObjectKinds ==
    { Object(0, NoGeometry, "none"),
      Object(0, Geometry("Mesh", FALSE, "none", TriMesh), "none"),
      Object(0, Geometry("Mesh", FALSE, "none", QuadMesh), "none"),
      Object(0, Geometry("Brep", FALSE, "none", QuadMesh), "none"),
      Object(0, Geometry("Brep", TRUE, "none", EmptyMesh), "none"),
      Object(0, Geometry("Surface", FALSE, "none", TriMesh), "none"),
      Object(0, Geometry("Surface", FALSE, "convert", TriMesh), "none"),
      Object(0, Geometry("Curve", FALSE, "none", EmptyMesh), "none"),
      Object(0, Geometry("Mesh", FALSE, "faces", TriMesh), "none"),
      Object(0, Geometry("Mesh", FALSE, "none", TriMesh), "geometry"),
      Object(0, Geometry("Mesh", FALSE, "none", TriMesh), "id"),
      Object(0, Geometry("Mesh", FALSE, "none", TriMesh), "attributes") }

\* objectTable.get(i): the i-th object, its id being its position
Stamp(objs) == [i \in 1..Len(objs) |-> [objs[i] EXCEPT !.id = i, !.attributes.layerIndex = i]]

ObjectTables == UNION { [1..n -> ObjectKinds] : n \in 0..MaxObjects }

\* every document of at most MaxObjects objects, and the undecodable files
Documents ==
    { File("doc", FALSE, FALSE, Stamp(t)) : t \in ObjectTables }
        \cup { File("corrupt", TRUE, FALSE, <<>>), File("table", FALSE, TRUE, <<>>) }

\* ------------------------------------------------------------------------
\* parseLocally: the reader.onload handler
\* ------------------------------------------------------------------------

\* for (let i = 0; i < count; i++) { ... }; threw: an exception left the loop
RECURSIVE DecodeObjects(_, _, _)
DecodeObjects(objs, i, acc) ==
    IF i > Len(objs) THEN [threw |-> FALSE, objects |-> acc]
    ELSE LET o == objs[i] IN
         IF o.fault = "geometry" THEN [threw |-> TRUE, objects |-> acc]
         ELSE IF o.geometry.isNull THEN DecodeObjects(objs, i + 1, acc)
         ELSE LET meshGeometry == extractMeshGeometry(o.geometry) IN
              IF meshGeometry.isNull THEN DecodeObjects(objs, i + 1, acc)
              ELSE IF o.fault = "id" THEN [threw |-> TRUE, objects |-> acc]
              ELSE DecodeObjects(objs, i + 1,
                       Append(acc, [id |-> o.id,
                                    geometry |-> meshGeometry,
                                    attributes |-> extractAttributes(o),
                                    objectType |-> o.geometry.objectType]))

\* how a promise of parse3dmFile / parseLocally stands
Pending == [kind |-> "pending", objects |-> <<>>, reason |-> ""]
Resolved(objs) == [kind |-> "resolved", objects |-> objs, reason |-> ""]
Rejected(reason) == [kind |-> "rejected", objects |-> <<>>, reason |-> reason]

\* engine handles obtained for one object (its geometry, and the mesh
\* tessellated from a Brep or Surface) that extractMeshGeometry has not
\* released when it returns: mesh.delete() is its only release, reached only
\* when every read succeeded, and for a Brep or Surface it releases the
\* tessellated mesh, not the geometry
HandlesLeft(g) ==
    IF g.objectType = "Mesh"
    THEN IF g.fault \in {"vertices", "faces", "normals", "colors"} THEN 1 ELSE 0
    ELSE IF g.objectType \notin {"Brep", "Surface"} THEN 1
    ELSE IF g.fault = "convert" \/ g.tessNull THEN 1
    ELSE IF g.fault \in {"vertices", "faces", "normals", "colors"} THEN 2
    ELSE 1

\* the unreleased handles of the objects the loop reached
RECURSIVE UnreleasedHandles(_, _)
UnreleasedHandles(objs, i) ==
    IF i > Len(objs) THEN 0
    ELSE LET o == objs[i] IN
         IF o.fault = "geometry" THEN 0
         ELSE IF o.geometry.isNull THEN UnreleasedHandles(objs, i + 1)
         ELSE HandlesLeft(o.geometry)
                  + (IF ~extractMeshGeometry(o.geometry).isNull /\ o.fault = "id"
                     THEN 0
                     ELSE UnreleasedHandles(objs, i + 1))

\* what an onload handler leaves behind
Returned(settle, docOpen, handles) ==
    [settle |-> settle, docOpen |-> docOpen, handles |-> handles]

\* onload rejecting a document that yields no mesh
onload_RejectEmpty(f) ==
    IF f.corrupt THEN Returned(Rejected("decode"), FALSE, 0)
    ELSE IF f.tableFault THEN Returned(Rejected("decode"), TRUE, 0)
    ELSE LET r == DecodeObjects(f.objects, 1, <<>>)
             h == UnreleasedHandles(f.objects, 1)
         IN IF r.threw THEN Returned(Rejected("decode"), TRUE, h)
            ELSE IF r.objects = <<>> THEN Returned(Rejected("decode"), FALSE, h)
            ELSE Returned(Resolved(r.objects), FALSE, h)

\* onload rejecting a document one of whose objects yields no mesh
onload_FailOnBadObject(f) ==
    IF f.corrupt THEN Returned(Rejected("decode"), FALSE, 0)
    ELSE IF f.tableFault THEN Returned(Rejected("decode"), TRUE, 0)
    ELSE LET r == DecodeObjects(f.objects, 1, <<>>)
             h == UnreleasedHandles(f.objects, 1)
         IN IF r.threw THEN Returned(Rejected("decode"), TRUE, h)
            ELSE IF \E i \in 1..Len(f.objects) :
                        /\ ~f.objects[i].geometry.isNull
                        /\ extractMeshGeometry(f.objects[i].geometry).isNull
                 THEN Returned(Rejected("decode"), TRUE, h)
            ELSE Returned(Resolved(r.objects), FALSE, h)

\* onload leaving out the objects whose attributes could not be read
onload_DropAttributeless(f) ==
    IF f.corrupt THEN Returned(Rejected("decode"), FALSE, 0)
    ELSE IF f.tableFault THEN Returned(Rejected("decode"), TRUE, 0)
    ELSE LET r == DecodeObjects(f.objects, 1, <<>>)
             h == UnreleasedHandles(f.objects, 1)
             HasAttributes(e) == ~e.attributes.isEmpty
         IN IF r.threw THEN Returned(Rejected("decode"), TRUE, h)
            ELSE Returned(Resolved(SelectSeq(r.objects, HasAttributes)), FALSE, h)

\* onload returning the entries in the reverse of the loop's order
onload_Reversed(f) ==
    IF f.corrupt THEN Returned(Rejected("decode"), FALSE, 0)
    ELSE IF f.tableFault THEN Returned(Rejected("decode"), TRUE, 0)
    ELSE LET r == DecodeObjects(f.objects, 1, <<>>)
             h == UnreleasedHandles(f.objects, 1)
             n == Len(r.objects)
         IN IF r.threw THEN Returned(Rejected("decode"), TRUE, h)
            ELSE Returned(Resolved([k \in 1..n |-> r.objects[n + 1 - k]]), FALSE, h)

\* the onload handler: the settlement, and whether the document it opened
\* (File3dm.fromByteArray) is still open when it returns; doc.delete() is the
\* last statement of the try block, the catch only rejects;
\* handles: the geometry and mesh handles of its objects it has not released
onload(f) ==
    IF f.corrupt THEN Returned(Rejected("decode"), FALSE, 0)
    ELSE IF f.tableFault THEN Returned(Rejected("decode"), TRUE, 0)
    ELSE LET r == DecodeObjects(f.objects, 1, <<>>)
             h == UnreleasedHandles(f.objects, 1)
         IN IF r.threw THEN Returned(Rejected("decode"), TRUE, h)
            ELSE Returned(Resolved(r.objects), FALSE, h)

\* ------------------------------------------------------------------------
\* The Rhino Compute endpoint
\* ------------------------------------------------------------------------

\* what POST /grasshopper does: a network error, a non-2xx status, a 2xx
\* body that is not JSON, a 2xx JSON body carrying no mesh, a 2xx JSON body
\* carrying meshes
Response(status) == [status |-> status]
NoResponse == Response("none")
RemoteResponses ==
    { Response(s) : s \in {"neterr", "non2xx", "badjson", "empty", "meshes"} }

\* the list a response body carries
RemoteObject ==
    [id |-> 100, geometry |-> extractMeshGeometry(Geometry("Mesh", FALSE, "none", TriMesh)),
     attributes |-> EmptyAttributes, objectType |-> "Mesh"]
RemoteList(resp) == IF resp.status = "meshes" THEN <<RemoteObject>> ELSE <<>>

\* processComputeResult reading the meshes out of the response
processComputeResult_Real(result) == RemoteList(result)

\* "This is a placeholder": return []
processComputeResult(result) == <<>>

\* GET /version: 2xx with a text body, 2xx whose body cannot be read,
\* non-2xx, network error
ProbeResults == {"ok", "textfail", "non2xx", "neterr"}

\* ------------------------------------------------------------------------
\* State
\* ------------------------------------------------------------------------

\* the files the service is called with: a document without objects, one with
\* two meshes, one whose second object makes the engine throw (SpecLocal runs
\* the decode on every document of Documents)
FixtureFiles ==
    { File("empty", FALSE, FALSE, <<>>),
      File("two", FALSE, FALSE,
           Stamp(<< Object(0, Geometry("Mesh", FALSE, "none", TriMesh), "none"),
                    Object(0, Geometry("Mesh", FALSE, "none", QuadMesh), "none") >>)),
      File("throws", FALSE, FALSE,
           Stamp(<< Object(0, Geometry("Mesh", FALSE, "none", TriMesh), "none"),
                    Object(0, Geometry("Mesh", FALSE, "none", TriMesh), "geometry") >>)) }

VARIABLES
    rhinoModule,      \* this.rhinoModule: 0 is null, n the n-th engine instance
    instantiations,   \* how many times rhino3dm.default() has produced an instance
    pc,               \* where each call of parse3dmFile is suspended
    file,             \* the argument of each call
    remote,           \* what the Rhino Compute POST of each call did
    outcome,          \* the promise each call returned
    openDocs,         \* the calls whose engine document is still open
    remoteAttempts,   \* POSTs made by each call
    localAttempts,    \* file reads for local parsing started by each call
    localFile,        \* SpecLocal: the file handed to the onload handler
    localResult,      \* SpecLocal: what the handler did with it
    srcMesh,          \* SpecMesh: the engine geometry handed to extractMeshGeometry
    outGeometry,      \* SpecMesh: what extractMeshGeometry returned
    uploadedFile,     \* CAD: the held file, by name ("" is null)
    viewerControls,   \* CAD: zoom / rotation / position
    activeMode,       \* ToolPanel: move / rotate / zoom
    showGrid,         \* ToolPanel
    showWireframe,    \* ToolPanel
    uploadCalls,      \* the files onFileUpload has been invoked with, in order
    lastDrop,         \* the acceptedFiles of the latest drop or pick
    drops,            \* drops and picks so far
    viewFile,         \* RhinoModel: the file prop ("" while not mounted)
    readers,          \* RhinoModel: FileReaders in flight, per file
    modelData,        \* RhinoModel: the fileName of modelData ("" is null)
    viewError         \* RhinoModel: error is set

serviceVars ==
    <<rhinoModule, instantiations, pc, file, remote, outcome, openDocs,
      remoteAttempts, localAttempts>>
localVars == <<localFile, localResult>>
meshVars == <<srcMesh, outGeometry>>
hostVars ==
    <<uploadedFile, viewerControls, activeMode, showGrid, showWireframe,
      uploadCalls, lastDrop, drops>>
viewerVars == <<viewFile, readers, modelData, viewError>>
uiVars == <<hostVars, viewerVars>>
vars == <<serviceVars, localVars, meshVars, uiVars>>

NotRun == Returned(Pending, FALSE, 0)
NotExtracted == [ran |-> FALSE, result |-> NullGeometry]

ServiceInit ==
    /\ rhinoModule = 0
    /\ instantiations = 0
    /\ pc = [c \in Calls |-> "idle"]
    /\ file = [c \in Calls |-> NoFile]
    /\ remote = [c \in Calls |-> NoResponse]
    /\ outcome = [c \in Calls |-> Pending]
    /\ openDocs = {}
    /\ remoteAttempts = [c \in Calls |-> 0]
    /\ localAttempts = [c \in Calls |-> 0]

LocalIdle == localFile = NoFile /\ localResult = NotRun
MeshIdle == srcMesh = NoGeometry /\ outGeometry = NotExtracted

\* the files the page can be given, by name
FileNames == { f.name : f \in FixtureFiles }
FileByName(n) == CHOOSE f \in FixtureFiles : f.name = n

\* useState({ zoom: 1, rotation: {0,0,0}, position: {0,0,0} })
DefaultControls == [zoom |-> 1, rotation |-> <<0, 0, 0>>, position |-> <<0, 0, 0>>]

\* the page before any upload: the useState initial values
UiInit ==
    /\ uploadedFile = ""
    /\ viewerControls = DefaultControls
    /\ activeMode = "move"
    /\ showGrid = TRUE
    /\ showWireframe = FALSE
    /\ uploadCalls = <<>>
    /\ lastDrop = <<>>
    /\ drops = 0
    /\ viewFile = ""
    /\ readers = [n \in FileNames |-> 0]
    /\ modelData = ""
    /\ viewError = FALSE

Init == ServiceInit /\ LocalIdle /\ MeshIdle /\ UiInit

\* ------------------------------------------------------------------------
\* RhinoComputeService: initialize, parse3dmFile
\* ------------------------------------------------------------------------

\* the call ends: the promise of parse3dmFile settles
Settle(c, o) ==
    /\ pc' = [pc EXCEPT ![c] = "done"]
    /\ outcome' = [outcome EXCEPT ![c] = o]

\* fetch(`${computeUrl}/grasshopper`, POST) is sent
StartCompute(c) ==
    /\ pc' = [pc EXCEPT ![c] = "compute"]
    /\ remoteAttempts' = [remoteAttempts EXCEPT ![c] = @ + 1]

\* parse3dmFile(file) is called; initialize() returns the cached module or
\* starts import('rhino3dm') (the service runs in a browser, so the
\* `typeof window` test of initialize never throws)
parse3dmFile(c, f) ==
    /\ pc[c] = "idle"
    /\ \A b \in Calls : b < c => pc[b] # "idle"
    /\ file' = [file EXCEPT ![c] = f]
    /\ IF rhinoModule # 0
       THEN StartCompute(c)
       ELSE /\ pc' = [pc EXCEPT ![c] = "import"]
            /\ UNCHANGED remoteAttempts
    /\ UNCHANGED <<rhinoModule, instantiations, remote, outcome, openDocs, localAttempts>>
    /\ UNCHANGED <<localVars, meshVars, uiVars>>

\* importModule with parse3dmFile swallowing the initialization error and
\* going on to the remote attempt
importModule_Continue(c, ok) ==
    /\ pc[c] = "import"
    /\ IF ok
       THEN pc' = [pc EXCEPT ![c] = "wasm"] /\ UNCHANGED remoteAttempts
       ELSE StartCompute(c)
    /\ UNCHANGED <<rhinoModule, instantiations, file, remote, outcome, openDocs,
                   localAttempts>>
    /\ UNCHANGED <<localVars, meshVars, uiVars>>

\* await import('rhino3dm') completes; a failure leaves initialize as an
\* exception that parse3dmFile rethrows
importModule(c, ok) ==
    /\ pc[c] = "import"
    /\ IF ok
       THEN pc' = [pc EXCEPT ![c] = "wasm"] /\ UNCHANGED outcome
       ELSE Settle(c, Rejected("init"))
    /\ UNCHANGED <<rhinoModule, instantiations, file, remote, openDocs,
                   remoteAttempts, localAttempts>>
    /\ UNCHANGED <<localVars, meshVars, uiVars>>

\* instantiate storing the failed instantiation in this.rhinoModule
instantiate_CacheFailure(c, ok) ==
    /\ pc[c] = "wasm"
    /\ IF ok
       THEN /\ instantiations' = instantiations + 1
            /\ rhinoModule' = instantiations + 1
            /\ pc' = [pc EXCEPT ![c] = "probe"]
            /\ UNCHANGED outcome
       ELSE /\ Settle(c, Rejected("init"))
            /\ rhinoModule' = 0 - 1
            /\ UNCHANGED instantiations
    /\ UNCHANGED <<file, remote, openDocs, remoteAttempts, localAttempts>>
    /\ UNCHANGED <<localVars, meshVars, uiVars>>

\* this.rhinoModule = await rhino3dm.default(); then GET /version is sent
instantiate(c, ok) ==
    /\ pc[c] = "wasm"
    /\ IF ok
       THEN /\ instantiations' = instantiations + 1
            /\ rhinoModule' = instantiations + 1
            /\ pc' = [pc EXCEPT ![c] = "probe"]
            /\ UNCHANGED outcome
       ELSE /\ Settle(c, Rejected("init"))
            /\ UNCHANGED <<rhinoModule, instantiations>>
    /\ UNCHANGED <<file, remote, openDocs, remoteAttempts, localAttempts>>
    /\ UNCHANGED <<localVars, meshVars, uiVars>>

\* testComputeConnection deciding, as its log lines say, that an unreachable
\* service means local processing only
testComputeConnection_Gate(c, r) ==
    /\ pc[c] = "probe"
    /\ r \in ProbeResults
    /\ IF r = "ok"
       THEN StartCompute(c) /\ UNCHANGED localAttempts
       ELSE /\ pc' = [pc EXCEPT ![c] = "reading"]
            /\ localAttempts' = [localAttempts EXCEPT ![c] = @ + 1]
            /\ UNCHANGED remoteAttempts
    /\ UNCHANGED <<rhinoModule, instantiations, file, remote, outcome, openDocs>>
    /\ UNCHANGED <<localVars, meshVars, uiVars>>

\* await this.testComputeConnection() completes: every result is only logged;
\* initialize returns and parse3dmFile goes on to parseWithCompute
testComputeConnection(c, r) ==
    /\ pc[c] = "probe"
    /\ r \in ProbeResults
    /\ StartCompute(c)
    /\ UNCHANGED <<rhinoModule, instantiations, file, remote, outcome, openDocs,
                   localAttempts>>
    /\ UNCHANGED <<localVars, meshVars, uiVars>>

\* what parseWithCompute returns: it throws unless the response is 2xx JSON
ComputeThrows(resp) == resp.status \in {"neterr", "non2xx", "badjson"}
ComputeObjects(resp) == processComputeResult(resp)

\* the remote attempt returned a list to return to the caller
RemoteYields(resp) == ~ComputeThrows(resp) /\ Len(ComputeObjects(resp)) > 0

\* parseWithCompute without the catch of parse3dmFile around it
parseWithCompute_NoCatch(c, resp) ==
    /\ pc[c] = "compute"
    /\ remote' = [remote EXCEPT ![c] = resp]
    /\ IF ComputeThrows(resp)
       THEN /\ Settle(c, Rejected("compute"))
            /\ UNCHANGED localAttempts
       ELSE IF RemoteYields(resp)
       THEN /\ Settle(c, Resolved(ComputeObjects(resp)))
            /\ UNCHANGED localAttempts
       ELSE /\ pc' = [pc EXCEPT ![c] = "reading"]
            /\ localAttempts' = [localAttempts EXCEPT ![c] = @ + 1]
            /\ UNCHANGED outcome
    /\ UNCHANGED <<rhinoModule, instantiations, file, openDocs, remoteAttempts>>
    /\ UNCHANGED <<localVars, meshVars, uiVars>>

\* await this.parseWithCompute(file) completes: a non-empty list is returned,
\* anything else falls through to parseLocally, which starts the FileReader
parseWithCompute(c, resp) ==
    /\ pc[c] = "compute"
    /\ remote' = [remote EXCEPT ![c] = resp]
    /\ IF RemoteYields(resp)
       THEN /\ Settle(c, Resolved(ComputeObjects(resp)))
            /\ UNCHANGED localAttempts
       ELSE /\ pc' = [pc EXCEPT ![c] = "reading"]
            /\ localAttempts' = [localAttempts EXCEPT ![c] = @ + 1]
            /\ UNCHANGED outcome
    /\ UNCHANGED <<rhinoModule, instantiations, file, openDocs, remoteAttempts>>
    /\ UNCHANGED <<localVars, meshVars, uiVars>>

\* parseLocally starting the FileReader again after a read error
parseLocally_Retry(c, readOk) ==
    /\ pc[c] = "reading"
    /\ IF readOk
       THEN LET r == onload(file[c]) IN
            /\ Settle(c, r.settle)
            /\ openDocs' = IF r.docOpen THEN openDocs \cup {c} ELSE openDocs
            /\ UNCHANGED localAttempts
       ELSE /\ localAttempts' = [localAttempts EXCEPT ![c] = @ + 1]
            /\ UNCHANGED <<pc, outcome, openDocs>>
    /\ UNCHANGED <<rhinoModule, instantiations, file, remote, remoteAttempts>>
    /\ UNCHANGED <<localVars, meshVars, uiVars>>

\* parseLocally without reader.onerror: a failed read settles nothing
parseLocally_NoOnerror(c, readOk) ==
    /\ pc[c] = "reading"
    /\ IF readOk
       THEN LET r == onload(file[c]) IN
            /\ Settle(c, r.settle)
            /\ openDocs' = IF r.docOpen THEN openDocs \cup {c} ELSE openDocs
       ELSE /\ pc' = [pc EXCEPT ![c] = "lost"]
            /\ UNCHANGED <<outcome, openDocs>>
    /\ UNCHANGED <<rhinoModule, instantiations, file, remote, remoteAttempts,
                   localAttempts>>
    /\ UNCHANGED <<localVars, meshVars, uiVars>>

\* parseLocally decoding the file of the latest call, as if the service kept
\* the file in a field of the singleton
parseLocally_SharedFile(c, readOk) ==
    /\ pc[c] = "reading"
    /\ IF readOk
       THEN LET last == CHOOSE d \in Calls :
                            /\ pc[d] # "idle"
                            /\ \A e \in Calls : pc[e] # "idle" => e <= d
                r == onload(file[last])
            IN /\ Settle(c, r.settle)
               /\ openDocs' = IF r.docOpen THEN openDocs \cup {c} ELSE openDocs
       ELSE /\ Settle(c, Rejected("read"))
            /\ UNCHANGED openDocs
    /\ UNCHANGED <<rhinoModule, instantiations, file, remote, remoteAttempts,
                   localAttempts>>
    /\ UNCHANGED <<localVars, meshVars, uiVars>>

\* the FileReader of parseLocally completes: onload decodes, onerror rejects
parseLocally(c, readOk) ==
    /\ pc[c] = "reading"
    /\ IF readOk
       THEN LET r == onload(file[c]) IN
            /\ Settle(c, r.settle)
            /\ openDocs' = IF r.docOpen THEN openDocs \cup {c} ELSE openDocs
       ELSE /\ Settle(c, Rejected("read"))
            /\ UNCHANGED openDocs
    /\ UNCHANGED <<rhinoModule, instantiations, file, remote, remoteAttempts,
                   localAttempts>>
    /\ UNCHANGED <<localVars, meshVars, uiVars>>

Next ==
    \/ \E c \in Calls, f \in FixtureFiles : parse3dmFile(c, f)
    \/ \E c \in Calls, ok \in BOOLEAN : importModule(c, ok)
    \/ \E c \in Calls, ok \in BOOLEAN : instantiate(c, ok)
    \/ \E c \in Calls, r \in ProbeResults : testComputeConnection(c, r)
    \/ \E c \in Calls, resp \in RemoteResponses : parseWithCompute(c, resp)
    \/ \E c \in Calls, ok \in BOOLEAN : parseLocally(c, ok)

Spec == Init /\ [][Next]_vars

\* the completion of the asynchronous operation call c is waiting for: the
\* import, the instantiation, GET /version, the POST or the file read
Completion(c) ==
    \/ \E ok \in BOOLEAN : importModule(c, ok)
    \/ \E ok \in BOOLEAN : instantiate(c, ok)
    \/ \E r \in ProbeResults : testComputeConnection(c, r)
    \/ \E resp \in RemoteResponses : parseWithCompute(c, resp)
    \/ \E ok \in BOOLEAN : parseLocally(c, ok)

\* the POST completing with a failure or with a 2xx answer
FairResponses == { Response("neterr"), Response("meshes") }

\* Next with the POST completing in one of these two ways
NextFair ==
    \/ \E c \in Calls, f \in FixtureFiles : parse3dmFile(c, f)
    \/ \E c \in Calls, ok \in BOOLEAN : importModule(c, ok)
    \/ \E c \in Calls, ok \in BOOLEAN : instantiate(c, ok)
    \/ \E c \in Calls, r \in ProbeResults : testComputeConnection(c, r)
    \/ \E c \in Calls, resp \in FairResponses : parseWithCompute(c, resp)
    \/ \E c \in Calls, ok \in BOOLEAN : parseLocally(c, ok)

\* every operation a call awaits completes, with success or with failure
SpecFair == Init /\ [][NextFair]_vars /\ \A c \in Calls : WF_vars(Completion(c))

\* ------------------------------------------------------------------------
\* SpecLocal: the onload / onerror handlers of parseLocally on every document
\* ------------------------------------------------------------------------
InitLocal ==
    /\ ServiceInit
    /\ localFile \in Documents
    /\ localResult = NotRun
    /\ MeshIdle
    /\ UiInit

\* reader.onload
readerOnload ==
    /\ localResult = NotRun
    /\ localResult' = onload(localFile)
    /\ UNCHANGED <<localFile, serviceVars, meshVars, uiVars>>

\* reader.onerror
readerOnerror ==
    /\ localResult = NotRun
    /\ localResult' = Returned(Rejected("read"), FALSE, 0)
    /\ UNCHANGED <<localFile, serviceVars, meshVars, uiVars>>

NextLocal == readerOnload \/ readerOnerror

SpecLocal == InitLocal /\ [][NextLocal]_vars

\* ------------------------------------------------------------------------
\* SpecMesh: extractMeshGeometry on bounded engine geometry
\* ------------------------------------------------------------------------
Indices == 0..MaxIndex

\* the face lists: every triangle/quad pattern of at most MaxFaces faces, over
\* every quadruple of vertex indices; the i-th face has the quadruple's
\* indices advanced by i - 1
Advance(k, i) == (k + i - 1) % (MaxIndex + 1)
SrcFace(isTri, q, i) ==
    IF isTri
    THEN TriFace(Advance(q[1], i), Advance(q[2], i), Advance(q[3], i))
    ELSE QuadFace(Advance(q[1], i), Advance(q[2], i), Advance(q[3], i), Advance(q[4], i))
FaceLists ==
    UNION { { [i \in 1..n |-> SrcFace(pat[i], q, i)] :
                pat \in [1..n -> BOOLEAN], q \in [1..4 -> Indices] } :
            n \in 0..MaxFaces }

\* the colour lists: at most MaxColors colours; the first is any colour with
\* equal channels 0..255 or with channels drawn from {0, 128, 255}, the i-th
\* has each channel moved by i - 1
ChannelSamples == {0, 128, ColorScale}
SrcColors ==
    { Color(c[1], c[2], c[3], c[4]) : c \in [1..4 -> ChannelSamples] }
        \cup { Color(v, v, v, v) : v \in 0..ColorScale }
Move(v, i) == (v + i - 1) % (ColorScale + 1)
ColorLists ==
    UNION { { [i \in 1..n |-> Color(Move(c.r, i), Move(c.g, i), Move(c.b, i), Move(c.a, i))] :
                c \in SrcColors } :
            n \in 0..MaxColors }

VertexList(n) == [i \in 1..n |-> <<i, 2 * i, 3 * i>>]
NormalList(n) == [i \in 1..n |-> <<0 - i, 0, i>>]

SrcMeshes ==
    { EngineMesh(VertexList(MaxIndex + 1), fs, <<>>, <<>>) : fs \in FaceLists }
        \cup { EngineMesh(VertexList(1), <<>>, <<>>, cs) : cs \in ColorLists }
        \cup { EngineMesh(VertexList(n), <<>>, NormalList(k), <<>>) :
                   n \in 0..MaxVerts, k \in 0..MaxVerts }

SrcGeometries ==
    { Geometry("Mesh", FALSE, "none", m) : m \in SrcMeshes }
        \cup { Geometry(t, tn, fl, QuadMesh) :
                   t \in ObjectTypes, tn \in BOOLEAN, fl \in ExtractFaults }

InitMesh ==
    /\ ServiceInit
    /\ LocalIdle
    /\ srcMesh \in SrcGeometries
    /\ outGeometry = NotExtracted
    /\ UiInit

\* const meshGeometry = this.extractMeshGeometry(geometry)
extractStep ==
    /\ ~outGeometry.ran
    /\ outGeometry' = [ran |-> TRUE, result |-> extractMeshGeometry(srcMesh)]
    /\ UNCHANGED <<srcMesh, serviceVars, localVars, uiVars>>

NextMesh == extractStep

SpecMesh == InitMesh /\ [][NextMesh]_vars

\* ------------------------------------------------------------------------
\* RhinoModel (CADViewer): the effect on [file] and its FileReader
\* ------------------------------------------------------------------------
RECURSIVE SumOver(_, _)
SumOver(f, S) ==
    IF S = {} THEN 0
    ELSE LET x == CHOOSE y \in S : TRUE IN f[x] + SumOver(f, S \ {x})

\* FileReaders started by the effect and not yet completed
InFlight == SumOver(readers, FileNames)

\* useEffect(..., [file]): reader.readAsArrayBuffer(file); modelData and
\* error are left as they are
startReader(f) ==
    /\ viewFile' = f
    /\ readers' = [readers EXCEPT ![f] = @ + 1]
    /\ UNCHANGED <<modelData, viewError>>

\* reader.onload of the reader started for f: setModelData({fileName: f, ...})
viewerOnload(f) ==
    /\ readers[f] > 0
    /\ readers' = [readers EXCEPT ![f] = @ - 1]
    /\ modelData' = f
    /\ UNCHANGED <<viewFile, viewError>>
    /\ UNCHANGED <<hostVars, serviceVars, localVars, meshVars>>

\* reader.onerror of the reader started for f: setError('Failed to read file')
viewerOnerror(f) ==
    /\ readers[f] > 0
    /\ readers' = [readers EXCEPT ![f] = @ - 1]
    /\ viewError' = TRUE
    /\ UNCHANGED <<viewFile, modelData>>
    /\ UNCHANGED <<hostVars, serviceVars, localVars, meshVars>>

\* what RhinoModel returns: the red box, the grey wireframe box, or the
\* boxes generated from the name and size of the file prop
Render ==
    IF viewError THEN "errorBox"
    ELSE IF modelData = "" THEN "wireframeBox"
    ELSE "generatedModel"

\* the parent renders RhinoModel with another file prop
changeFile(f) ==
    /\ f # viewFile
    /\ InFlight < MaxReaders
    /\ startReader(f)
    /\ UNCHANGED <<hostVars, serviceVars, localVars, meshVars>>

NextViewer ==
    \/ \E f \in FileNames : changeFile(f)
    \/ \E f \in FileNames : viewerOnload(f)
    \/ \E f \in FileNames : viewerOnerror(f)

SpecViewer == Init /\ [][NextViewer]_vars

\* ------------------------------------------------------------------------
\* CAD page: FileUpload, the held file, ToolPanel
\* ------------------------------------------------------------------------

\* every list of accepted files a drop or pick can deliver
DropLists == UNION { [1..n -> FileNames] : n \in 0..MaxDropped }

\* onDrop taking the last accepted file
FirstAccepted_Last(acceptedFiles) == acceptedFiles[Len(acceptedFiles)]

\* const file = acceptedFiles[0]
FirstAccepted(acceptedFiles) == acceptedFiles[1]

\* handleFileUpload: setUploadedFile(file); the page then renders CADViewer
\* and ToolPanel instead of FileUpload, and RhinoModel's effect runs
handleFileUpload(f) ==
    /\ uploadedFile' = f
    /\ startReader(f)

\* FileUpload.onDrop(acceptedFiles); FileUpload is rendered while no file is held
onDrop(acceptedFiles) ==
    /\ uploadedFile = ""
    /\ drops < MaxDrops
    /\ drops' = drops + 1
    /\ lastDrop' = acceptedFiles
    /\ IF acceptedFiles # <<>>
       THEN /\ uploadCalls' = Append(uploadCalls, FirstAccepted(acceptedFiles))
            /\ handleFileUpload(FirstAccepted(acceptedFiles))
       ELSE UNCHANGED <<uploadCalls, uploadedFile, viewerVars>>
    /\ UNCHANGED <<viewerControls, activeMode, showGrid, showWireframe>>
    /\ UNCHANGED <<serviceVars, localVars, meshVars>>

\* the "Reset View" button
resetView ==
    /\ viewerControls' = DefaultControls
    /\ UNCHANGED <<uploadedFile, activeMode, showGrid, showWireframe,
                   uploadCalls, lastDrop, drops>>
    /\ UNCHANGED <<viewerVars, serviceVars, localVars, meshVars>>

ToolModes == {"move", "rotate", "zoom"}

\* ToolPanel is rendered while a file is held; a tool button
setActiveMode(m) ==
    /\ uploadedFile # ""
    /\ activeMode' = m
    /\ UNCHANGED <<uploadedFile, viewerControls, showGrid, showWireframe,
                   uploadCalls, lastDrop, drops>>
    /\ UNCHANGED <<viewerVars, serviceVars, localVars, meshVars>>

\* the Grid switch
setShowGrid(b) ==
    /\ uploadedFile # ""
    /\ showGrid' = b
    /\ UNCHANGED <<uploadedFile, viewerControls, activeMode, showWireframe,
                   uploadCalls, lastDrop, drops>>
    /\ UNCHANGED <<viewerVars, serviceVars, localVars, meshVars>>

\* setShowWireframe also pushing a zoom through onControlsChange
setShowWireframe_Controls(b) ==
    /\ uploadedFile # ""
    /\ showWireframe' = b
    /\ viewerControls' = [viewerControls EXCEPT !.zoom = 2]
    /\ UNCHANGED <<uploadedFile, activeMode, showGrid, uploadCalls, lastDrop, drops>>
    /\ UNCHANGED <<viewerVars, serviceVars, localVars, meshVars>>

\* the Wireframe switch
setShowWireframe(b) ==
    /\ uploadedFile # ""
    /\ showWireframe' = b
    /\ UNCHANGED <<uploadedFile, viewerControls, activeMode, showGrid,
                   uploadCalls, lastDrop, drops>>
    /\ UNCHANGED <<viewerVars, serviceVars, localVars, meshVars>>

\* a layer button: it has no handler
layerButton ==
    /\ uploadedFile # ""
    /\ UNCHANGED vars

NextHost ==
    \/ \E l \in DropLists : onDrop(l)
    \/ resetView
    \/ \E m \in ToolModes : setActiveMode(m)
    \/ \E b \in BOOLEAN : setShowGrid(b)
    \/ \E b \in BOOLEAN : setShowWireframe(b)
    \/ layerButton
    \/ \E f \in FileNames : viewerOnload(f)
    \/ \E f \in FileNames : viewerOnerror(f)

SpecHost == Init /\ [][NextHost]_vars

\* ------------------------------------------------------------------------
\* Properties
\* ------------------------------------------------------------------------
Done(c) == pc[c] = "done"

\* C1: a call whose remote attempt got a 2xx response carrying one or more
\* meshes returns exactly that list and never starts the local decode
C1_RemoteResultTakesPrecedence ==
    \A c \in Calls :
        remote[c].status = "meshes" =>
            /\ localAttempts[c] = 0
            /\ Done(c) => outcome[c] = Resolved(RemoteList(remote[c]))

\* the ways the remote attempt fails to produce a non-empty result
RemoteFailures == {"neterr", "non2xx", "badjson", "empty"}

\* what local resolution of a file can give: the decode of its bytes, or the
\* read error of the FileReader
LocalOutcomes(f) == {onload(f).settle, Rejected("read")}

\* C2: after any remote failure (network error, non-2xx, unparsable body,
\* empty list) the call's outcome is the outcome of local resolution of the
\* same file; the remote failure is not surfaced
C2_RemoteFailureAbsorbed ==
    \A c \in Calls :
        /\ remote[c].status \in RemoteFailures => localAttempts[c] = 1
        /\ Done(c) /\ remote[c].status \in RemoteFailures =>
               outcome[c] \in LocalOutcomes(file[c])

\* remote unreachable and two locally decodable objects: Success with 2 meshes
C2_Witness ==
    \E c \in Calls :
        /\ Done(c)
        /\ remote[c].status = "neterr"
        /\ file[c].name = "two"
        /\ outcome[c].kind = "resolved"
        /\ Len(outcome[c].objects) = 2

\* C3: no call of parse3dmFile rejects: a call that got past initialization
\* (C5 is the initialization case) ends with a value, also when the file
\* cannot be read or the engine throws during the decode
C3_NeverRejects ==
    \A c \in Calls : remoteAttempts[c] > 0 => outcome[c].kind # "rejected"

\* C4: the engine is instantiated at most once, whatever the interleaving of calls
C4_InitializedOnce == instantiations <= 1

\* C5: a call whose engine initialization failed (it made no remote and no
\* local attempt) ends with a value, not with a rejection
C5_InitFailureIsValue ==
    \A c \in Calls :
        Done(c) /\ remoteAttempts[c] = 0 /\ localAttempts[c] = 0 =>
            outcome[c].kind # "rejected"

\* a convertible kind: Mesh, or Brep/Surface whose tessellation yields a mesh
Convertible(g) ==
    \/ g.objectType = "Mesh"
    \/ g.objectType \in {"Brep", "Surface"} /\ ~g.tessNull /\ g.fault # "convert"

\* reading the mesh's vertices, faces, normals or colours raises an exception
ExtractionThrows(g) == g.fault \in {"vertices", "faces", "normals", "colors"}

\* objects with non-null geometry of a convertible kind
ConvertibleObjects(f) ==
    { i \in 1..Len(f.objects) :
        /\ ~f.objects[i].geometry.isNull
        /\ Convertible(f.objects[i].geometry) }

\* ... whose tessellation and extraction raise no exception
ConvertedObjects(f) ==
    { i \in ConvertibleObjects(f) : ~ExtractionThrows(f.objects[i].geometry) }

LocalResolved == localResult.settle.kind = "resolved"

\* C6 as stated: the returned collection has one entry per object with
\* non-null geometry of a convertible kind
C6_CountConvertible ==
    LocalResolved =>
        Len(localResult.settle.objects) = Cardinality(ConvertibleObjects(localFile))

\* C6 amended: the returned collection has one entry per object with non-null
\* geometry of a convertible kind whose extraction raises no engine exception
C6_CountConverted ==
    LocalResolved =>
        Len(localResult.settle.objects) = Cardinality(ConvertedObjects(localFile))

\* a document mixing a converted Surface with a non-convertible object
C6_Witness ==
    /\ LocalResolved
    /\ Len(localFile.objects) = 2
    /\ Len(localResult.settle.objects) = 1
    /\ \E i \in 1..2 : localFile.objects[i].geometry.objectType = "Surface"
                          /\ i \in ConvertedObjects(localFile)
    /\ \E i \in 1..2 : i \notin ConvertibleObjects(localFile)

\* no engine exception leaves the loop of the handler
DecodeCompletes(f) ==
    /\ ~f.corrupt
    /\ ~f.tableFault
    /\ \A i \in 1..Len(f.objects) :
           /\ f.objects[i].fault # "geometry"
           /\ f.objects[i].fault = "id" => i \notin ConvertedObjects(f)

LocalRan == localResult # NotRun /\ localResult.settle.reason # "read"

\* C7: a decode that succeeds with zero meshes ends as the resolved empty
\* list, and nothing else does: every failure is a rejection and every
\* success with meshes a non-empty list
C7_EmptyResultDistinct ==
    LocalRan =>
        /\ DecodeCompletes(localFile) /\ ConvertedObjects(localFile) = {}
               => localResult.settle = Resolved(<<>>)
        /\ localResult.settle = Resolved(<<>>)
               => DecodeCompletes(localFile) /\ ConvertedObjects(localFile) = {}
        /\ localResult.settle.kind = "rejected" => ~DecodeCompletes(localFile)

\* a document with objects, none convertible, gives the empty list
C7_Witness ==
    /\ LocalRan
    /\ Len(localFile.objects) > 0
    /\ localResult.settle = Resolved(<<>>)

\* triples emitted for the source faces before face i
Offset(fs, i) == (i - 1) + Cardinality({ j \in 1..(i - 1) : ~fs[j].isTriangle })

MeshExtracted == outGeometry.ran /\ ~outGeometry.result.isNull

\* C8: each triangle (a,b,c) gives the triple [a,b,c], each quad [a,b,c,d]
\* the triples [a,b,c], [a,c,d], in source-face order and nothing else
C8_FaceExtraction ==
    MeshExtracted =>
        LET fs == srcMesh.mesh.faces
            out == outGeometry.result.faces
        IN /\ Len(out) = Offset(fs, Len(fs) + 1)
           /\ \A i \in 1..Len(fs) :
                  /\ out[Offset(fs, i) + 1] = <<fs[i].a, fs[i].b, fs[i].c>>
                  /\ ~fs[i].isTriangle =>
                         out[Offset(fs, i) + 2] = <<fs[i].a, fs[i].c, fs[i].d>>

\* a quad with distinct b and a followed by a triangle
C8_Witness ==
    /\ MeshExtracted
    /\ Len(srcMesh.mesh.faces) = 2
    /\ ~srcMesh.mesh.faces[1].isTriangle
    /\ srcMesh.mesh.faces[1].a # srcMesh.mesh.faces[1].b
    /\ srcMesh.mesh.faces[2].isTriangle
    /\ Len(outGeometry.result.faces) = 3

\* the emitted channel q is v / 255
IsNormalized(q, v) ==
    /\ q.num * ColorScale = v * q.den
    /\ q.den > 0
    /\ 0 <= q.num /\ q.num <= q.den
    /\ v = ColorScale => q.num = q.den
    /\ v = 0 => q.num = 0
    /\ v = 128 => 5015 * q.den <= 10000 * q.num /\ 10000 * q.num <= 5025 * q.den

\* C9: every engine colour (r,g,b,a) is emitted as (r/255, g/255, b/255,
\* a/255) in that order; every channel is in [0,1], 255 gives 1, 0 gives 0,
\* 128 gives about 0.502
C9_ColorNormalization ==
    MeshExtracted =>
        LET cs == srcMesh.mesh.vertexColors
            out == outGeometry.result.colors
        IN /\ out.present <=> Len(cs) > 0
           /\ Len(out.items) = Len(cs)
           /\ \A i \in 1..Len(cs) :
                  /\ Len(out.items[i]) = 4
                  /\ IsNormalized(out.items[i][1], cs[i].r)
                  /\ IsNormalized(out.items[i][2], cs[i].g)
                  /\ IsNormalized(out.items[i][3], cs[i].b)
                  /\ IsNormalized(out.items[i][4], cs[i].a)

\* a colour with channels 255, 0, 128 has been normalized
C9_Witness ==
    /\ MeshExtracted
    /\ Len(srcMesh.mesh.vertexColors) = 1
    /\ srcMesh.mesh.vertexColors[1] = Color(ColorScale, 0, 128, ColorScale)
    /\ outGeometry.result.colors.present

\* C10: once a call has ended, with whatever outcome, the engine document it
\* opened has been released
C10_DocumentReleased ==
    \A c \in Calls : Done(c) => c \notin openDocs

\* the remote attempt of call c has completed and parseWithCompute threw or
\* returned the empty list
RemoteCameBackEmpty(c) == remote[c] # NoResponse /\ ~RemoteYields(remote[c])

\* C11: one call makes the remote attempt at most once and before any local
\* attempt, makes the local attempt at most once and only after the remote
\* attempt completed without a non-empty result, and retries nothing: each
\* position of the call fixes how many attempts it has made
C11_CallStateMachine ==
    \A c \in Calls :
        /\ remoteAttempts[c] <= 1 /\ localAttempts[c] <= 1
        /\ pc[c] \in {"idle", "import", "wasm", "probe"} =>
               /\ remoteAttempts[c] = 0 /\ localAttempts[c] = 0
               /\ remote[c] = NoResponse /\ outcome[c] = Pending
        /\ pc[c] = "compute" =>
               /\ remoteAttempts[c] = 1 /\ localAttempts[c] = 0
               /\ remote[c] = NoResponse /\ outcome[c] = Pending
        /\ pc[c] = "reading" =>
               /\ remoteAttempts[c] = 1 /\ localAttempts[c] = 1
               /\ RemoteCameBackEmpty(c) /\ outcome[c] = Pending
        /\ localAttempts[c] = 1 =>
               remoteAttempts[c] = 1 /\ RemoteCameBackEmpty(c)
        /\ Done(c) => outcome[c].kind \in {"resolved", "rejected"}

\* a call went Idle, RemoteAttempt, LocalAttempt, Failure after a read error
C11_Witness ==
    \E c \in Calls :
        /\ Done(c)
        /\ remoteAttempts[c] = 1
        /\ localAttempts[c] = 1
        /\ outcome[c] = Rejected("read")

\* C12: a completion of a reader that was started for a file other than the
\* current file prop changes neither the displayed model nor the error state
C12_StaleCompletionDiscarded ==
    [][\A f \in FileNames :
           f # viewFile /\ readers'[f] < readers[f] =>
               modelData' = modelData /\ viewError' = viewError]_vars

\* how the processing of the displayed file stands: the reader of the file
\* prop has not completed, it failed, or it delivered the bytes of a document
\* that yields no mesh / at least one mesh / an engine exception
ViewStatus ==
    IF viewError THEN "Failure"
    ELSE IF modelData = "" THEN "pending"
    ELSE LET r == onload(FileByName(viewFile)).settle IN
         IF r.kind = "rejected" THEN "Failure"
         ELSE IF r.objects = <<>> THEN "EmptyResult"
         ELSE "Success"

\* C13: while a file is displayed the viewport shows the pending placeholder
\* exactly while pending, the error placeholder exactly on Failure, the
\* wireframe placeholder exactly on EmptyResult and the mesh list exactly on
\* Success
C13_RenderPerStatus ==
    viewFile # "" =>
        /\ Render = "spinner" <=> ViewStatus = "pending"
        /\ Render = "errorBox" <=> ViewStatus = "Failure"
        /\ Render = "wireframeBox" <=> ViewStatus = "EmptyResult"
        /\ Render = "meshList" <=> ViewStatus = "Success"

\* C14: every drop or pick with a non-empty list invokes the upload callback
\* exactly once, with the first file of the list, which becomes the held
\* file; an empty list invokes nothing; nothing else invokes the callback
C14_UploadFirstFileOnce ==
    [][IF drops' # drops
       THEN IF lastDrop' = <<>>
            THEN uploadCalls' = uploadCalls /\ uploadedFile' = uploadedFile
            ELSE /\ uploadCalls' = Append(uploadCalls, lastDrop'[1])
                 /\ uploadedFile' = lastDrop'[1]
       ELSE uploadCalls' = uploadCalls /\ uploadedFile' = uploadedFile]_vars

\* two different files were dropped after an empty drop; the first was uploaded
C14_Witness ==
    /\ drops = 2
    /\ Len(lastDrop) = 2
    /\ lastDrop[1] # lastDrop[2]
    /\ uploadCalls = << lastDrop[1] >>
    /\ uploadedFile = lastDrop[1]

\* C15: in every state with a held file some user action replaces or
\* discards the held file
C15_FileCanBeReplacedOrDiscarded ==
    uploadedFile # "" => ENABLED (NextHost /\ uploadedFile' # uploadedFile)

\* C16: every emitted triangle index is a position of the emitted vertex
\* sequence, and emitted normals / colours have one entry per vertex
C16_RenderMeshWellFormed ==
    MeshExtracted =>
        LET m == outGeometry.result
            n == Len(m.vertices)
        IN /\ \A i \in 1..Len(m.faces) : \A k \in 1..3 :
                  0 <= m.faces[i][k] /\ m.faces[i][k] < n
           /\ m.normals.present => Len(m.normals.items) = n
           /\ m.colors.present => Len(m.colors.items) = n

\* a step of the ToolPanel: its display state changes
ToolPanelStep ==
    \/ activeMode' # activeMode
    \/ showGrid' # showGrid
    \/ showWireframe' # showWireframe

\* C17: a ToolPanel action changes only the ToolPanel's display state: not
\* the held file, not the viewer controls, not the viewer's reader, model or
\* error, not the resolver
C17_SidebarIsDisplayOnly ==
    [][ToolPanelStep =>
           UNCHANGED <<uploadedFile, viewerControls, uploadCalls, viewerVars,
                       serviceVars, localVars>>]_vars

\* the sidebar has been used while the file's reader was still in flight
C17_Witness ==
    /\ uploadedFile # ""
    /\ activeMode = "zoom"
    /\ showWireframe
    /\ ~showGrid
    /\ readers[uploadedFile] = 1

\* an object whose mesh extraction yields no mesh: its geometry is of an
\* unsupported kind, its tessellation returns null or throws, or a read of
\* its vertices, faces, normals or colours throws
BadObject(o) ==
    /\ o.fault # "geometry"
    /\ ~o.geometry.isNull
    /\ extractMeshGeometry(o.geometry).isNull

\* the document without its i-th object; the other objects keep their ids
FileWithout(f, i) ==
    [f EXCEPT !.objects =
        [k \in 1..(Len(f.objects) - 1) |->
            IF k < i THEN f.objects[k] ELSE f.objects[k + 1]]]

\* C18: for every object whose mesh extraction returns no mesh or throws,
\* the handler settles exactly as it does on the document without that
\* object: the object alone is skipped
C18_BadObjectAloneSkipped ==
    LocalRan =>
        \A i \in 1..Len(localFile.objects) :
            BadObject(localFile.objects[i]) =>
                localResult.settle = onload(FileWithout(localFile, i)).settle

\* a document with an object whose extraction throws resolved with the
\* entry of its other object
C18_Witness ==
    /\ LocalResolved
    /\ \E i \in 1..Len(localFile.objects) :
           /\ BadObject(localFile.objects[i])
           /\ ExtractionThrows(localFile.objects[i].geometry)
    /\ Len(localResult.settle.objects) = 1

\* C19: when the local resolution has returned, no geometry or mesh handle
\* obtained for any object it processed is still unreleased
C19_HandlesReleased ==
    LocalRan => localResult.handles = 0

\* C20: no remote response is consumed: every response maps to the empty
\* list, every call that received a response went on to the local read, and
\* every call that resolved did so after the local read, with the objects of
\* the local decode of its file
C20_RemoteNeverConsumed ==
    \A c \in Calls :
        /\ remote[c] # NoResponse =>
               /\ processComputeResult(remote[c]) = <<>>
               /\ ~RemoteYields(remote[c])
               /\ localAttempts[c] = 1
        /\ Done(c) /\ outcome[c].kind = "resolved" =>
               /\ localAttempts[c] = 1
               /\ outcome[c] = onload(file[c]).settle

\* a call answered with a mesh by the remote service resolved with the
\* objects of its local decode
C20_Witness ==
    \E c \in Calls :
        /\ Done(c)
        /\ remote[c].status = "meshes"
        /\ localAttempts[c] = 1
        /\ outcome[c].kind = "resolved"
        /\ outcome[c].objects # << >>

\* C21: the returned collection lists the converted objects in ascending
\* object-table index order: each entry is the entry of a converted object,
\* and an entry of object i precedes an entry of object j exactly when i < j
C21_AscendingTableOrder ==
    LocalResolved =>
        LET out == localResult.settle.objects IN
        /\ \A a \in 1..Len(out) :
               /\ out[a].id \in ConvertedObjects(localFile)
               /\ out[a].objectType = localFile.objects[out[a].id].geometry.objectType
        /\ \A a, b \in 1..Len(out) : a < b <=> out[a].id < out[b].id

\* two objects of different kinds were converted and are returned in table order
C21_Witness ==
    /\ LocalResolved
    /\ Len(localResult.settle.objects) = 2
    /\ localResult.settle.objects[1].id = 1
    /\ localResult.settle.objects[2].id = 2
    /\ localResult.settle.objects[1].objectType = "Brep"
    /\ localResult.settle.objects[2].objectType = "Mesh"

\* the call is inside initialize, or has not been made
InInitialize(c) == pc[c] \in {"idle", "import", "wasm", "probe"}

C23_OptionalAttributes ==
    MeshExtracted =>
        LET m == srcMesh.mesh
            out == outGeometry.result
        IN /\ Len(out.vertices) = Len(m.vertices)
           /\ \A i \in 1..Len(m.vertices) :
                  out.vertices[i] = <<m.vertices[i][1], m.vertices[i][2], m.vertices[i][3]>>
           /\ out.normals.present <=> Len(m.normals) > 0
           /\ ~out.normals.present => out.normals = Absent
           /\ Len(out.normals.items) = Len(m.normals)
           /\ \A i \in 1..Len(m.normals) :
                  out.normals.items[i] = <<m.normals[i][1], m.normals[i][2], m.normals[i][3]>>
           /\ out.colors.present <=> Len(m.vertexColors) > 0
           /\ ~out.colors.present => out.colors = Absent
           /\ Len(out.colors.items) = Len(m.vertexColors)

\* a mesh with two vertices and no normal was extracted without normals
C23_Witness ==
    /\ MeshExtracted
    /\ Len(srcMesh.mesh.vertices) = 2
    /\ srcMesh.mesh.normals = << >>
    /\ outGeometry.result.vertices = << <<1, 2, 3>>, <<2, 4, 6>> >>
    /\ ~outGeometry.result.normals.present

\* the call's initialize threw
InitFailed(c) == Done(c) /\ outcome[c] = Rejected("init")

\* C24: a call whose initialization failed has made no POST, started no
\* file read and opened no document; a call still inside initialize has made
\* neither; and a POST or a read exists only with the engine instantiated
C24_InitializationGates ==
    \A c \in Calls :
        /\ InitFailed(c) =>
               /\ remoteAttempts[c] = 0 /\ localAttempts[c] = 0
               /\ remote[c] = NoResponse
               /\ c \notin openDocs
        /\ InInitialize(c) => remoteAttempts[c] = 0 /\ localAttempts[c] = 0
        /\ remoteAttempts[c] > 0 \/ localAttempts[c] > 0 =>
               /\ rhinoModule # 0
               /\ ~InitFailed(c)
        /\ localAttempts[c] > 0 => remoteAttempts[c] > 0

\* one call failed in initialize without any attempt while the other call,
\* initialized, has read its file
C24_Witness ==
    \E c, d \in Calls :
        /\ InitFailed(c)
        /\ remoteAttempts[c] = 0 /\ localAttempts[c] = 0
        /\ Done(d)
        /\ remoteAttempts[d] = 1 /\ localAttempts[d] = 1
        /\ outcome[d].kind = "resolved"

\* C25: a failing initialize leaves the engine handle as it is; a call made
\* while the handle is unset attempts the import again, one made while it is
\* set skips it; the handle changes only by a successful instantiation, which
\* sets it to the new instance, and once set it is never unset
C25_InitFailureNotCached ==
    [][/\ \A c \in Calls :
              /\ ~InitFailed(c) /\ InitFailed(c)' =>
                     /\ rhinoModule' = rhinoModule
                     /\ instantiations' = instantiations
              /\ pc[c] = "idle" /\ pc'[c] # "idle" =>
                     IF rhinoModule = 0 THEN pc'[c] = "import"
                                        ELSE pc'[c] = "compute"
              /\ pc[c] = "wasm" /\ pc'[c] = "probe" =>
                     /\ instantiations' = instantiations + 1
                     /\ rhinoModule' = instantiations'
       /\ rhinoModule' # rhinoModule =>
              \E c \in Calls : pc[c] = "wasm" /\ pc'[c] = "probe"
       /\ rhinoModule # 0 => rhinoModule' # 0
       /\ rhinoModule \in 0..instantiations]_vars

\* the first call failed in initialize; the second call initialized the
\* engine again, cached it and went on to its remote attempt and local read
C25_Witness ==
    /\ InitFailed(1)
    /\ instantiations = 1
    /\ rhinoModule = 1
    /\ Done(2)
    /\ localAttempts[2] = 1
    /\ outcome[2].kind = "resolved"

\* what a call holds of its own
CallState(c) ==
    <<pc[c], file[c], remote[c], outcome[c], remoteAttempts[c], localAttempts[c],
      c \in openDocs>>

\* C26: a step of one call changes nothing another call holds, and what a
\* call has after its local read is the decode of its own file: its objects,
\* and its document open or released, as for that file alone
C26_CallsIsolated ==
    [][\A c \in Calls :
           /\ CallState(c)' # CallState(c) =>
                  \A d \in Calls \ {c} : CallState(d)' = CallState(d)
           /\ pc[c] = "reading" /\ Done(c)' =>
                  \/ /\ outcome'[c] = onload(file[c]).settle
                     /\ c \in openDocs' <=> onload(file[c]).docOpen
                  \/ /\ outcome'[c] = Rejected("read")
                     /\ c \notin openDocs']_vars

\* the two calls overlap: the first, given a file on which the engine
\* throws, is still waiting for its file read while the second, made after
\* it, has resolved with the two meshes of its own file and released its
\* document
C26_Witness ==
    /\ file[1].name = "throws" /\ file[2].name = "two"
    /\ pc[1] = "reading"
    /\ Done(2)
    /\ outcome[2].kind = "resolved" /\ Len(outcome[2].objects) = 2
    /\ openDocs = {}

\* the promise of a call is settled
Settled(c) == outcome[c].kind \in {"resolved", "rejected"}

\* C27: when every awaited operation completes, every call that was made
\* ends; a call that has ended has exactly one outcome, a call that has not
\* has none, and an outcome, once there, never changes
C27_CallTerminates ==
    /\ \A c \in Calls : (pc[c] # "idle") ~> Done(c)
    /\ [](\A c \in Calls : Done(c) <=> Settled(c))
    /\ [][\A c \in Calls :
              Settled(c) => outcome'[c] = outcome[c] /\ pc'[c] = pc[c]]_vars

\* every call has ended: one with the empty list, one by the rejection of
\* a decode in which the engine threw
C27_Witness ==
    /\ \A c \in Calls : Done(c) /\ Settled(c)
    /\ \E c \in Calls : outcome[c] = Rejected("decode")
    /\ \E c \in Calls : outcome[c] = Resolved(<< >>)

\* the document with the attributes of its i-th object readable
AttributesReadable(f, i) == [f EXCEPT !.objects[i].fault = "none"]

\* C28: when reading the attributes of an object throws, the handler ends
\* as it does on the same document with those attributes readable, except
\* that the entry of that object, kept with its id, mesh geometry and kind,
\* carries the empty attributes record
C28_AttributeFailureKeepsObject ==
    LocalRan =>
        \A i \in 1..Len(localFile.objects) :
            localFile.objects[i].fault = "attributes" =>
                LET ref == onload(AttributesReadable(localFile, i))
                    out == localResult.settle
                IN /\ out.kind = ref.settle.kind
                   /\ localResult.docOpen = ref.docOpen
                   /\ Len(out.objects) = Len(ref.settle.objects)
                   /\ \A k \in 1..Len(out.objects) :
                          IF ref.settle.objects[k].id = i
                          THEN out.objects[k] =
                                   [ref.settle.objects[k] EXCEPT !.attributes = EmptyAttributes]
                          ELSE out.objects[k] = ref.settle.objects[k]

\* an object whose attributes could not be read is returned with its mesh
\* and the empty record, next to an object with its attributes
C28_Witness ==
    /\ LocalResolved
    /\ Len(localResult.settle.objects) = 2
    /\ localFile.objects[1].fault = "attributes"
    /\ localResult.settle.objects[1].id = 1
    /\ localResult.settle.objects[1].attributes = EmptyAttributes
    /\ ~localResult.settle.objects[1].geometry.isNull
    /\ ~localResult.settle.objects[2].attributes.isEmpty

====
